---- MODULE Spec2Model ----
(***************************************************************************)
(* A model of BabyMonkeyAGI.py: the task store, the thought tree, the      *)
(* prioritization parser and the driver loop.                              *)
(*                                                                         *)
(* Text is a sequence of tokens.  A token is one whitespace character (any *)
(* character str.isspace accepts, see Whitespace), or ".", or one decimal  *)
(* digit, or an atom: a maximal run of other characters (an atom may hold  *)
(* inner blanks " ", it never starts or ends with a whitespace character   *)
(* and it holds no other whitespace character, no "." and no digit).       *)
(* Equal texts have equal token sequences.  str.split and str.strip only   *)
(* look at these characters, so they are computed on tokens as the code    *)
(* computes them on characters.                                            *)
(***************************************************************************)
EXTENDS Integers, Sequences, FiniteSets, TLC

\* ------------------------------------------------------------------ bounds
MaxIter == 3        \* loop iterations a run of the driver is followed for
MaxAttempts == 2    \* consecutive failed oracle attempts followed
MaxOps == 5         \* calls made on a store or a tree in StoreSpec / TreeSpec
MaxThoughts == 4    \* Thought objects built in TreeSpec
MaxText == 4        \* tokens of an oracle answer drawn freely in ParseSpec

\* ------------------------------------------------------------------ values
None == 0                        \* Python None, as a Thought reference
AttributeError == -1             \* None.children
NoTask == [task_id |-> [ty |-> "none", n |-> 0, s |-> <<>>], task_name |-> <<>>]

\* a task id is the int the counter gave, or the text the oracle gave
IntId(n) == [ty |-> "int", n |-> n, s |-> <<>>]
StrId(s) == [ty |-> "str", n |-> 0, s |-> s]

\* the characters str.strip() removes: every character c with c.isspace().  Those
\* a string here cannot hold are written as their Python escapes.
Whitespace ==
    { " ", "\n", "\t", "\r", "\f",
      "\\x0b", "\\x1c", "\\x1d", "\\x1e", "\\x1f", "\\x85", "\\xa0",
      "\\u1680", "\\u2000", "\\u2001", "\\u2002", "\\u2003", "\\u2004", "\\u2005",
      "\\u2006", "\\u2007", "\\u2008", "\\u2009", "\\u200a", "\\u2028", "\\u2029",
      "\\u202f", "\\u205f", "\\u3000" }

\* ------------------------------------------------------------------ str
Contains(s, tok) == \E i \in 1..Len(s) : s[i] = tok

RECURSIVE lstrip(_)
lstrip(s) ==
    IF s # <<>> /\ Head(s) \in Whitespace THEN lstrip(Tail(s)) ELSE s

RECURSIVE rstrip(_)
rstrip(s) ==
    IF s # <<>> /\ s[Len(s)] \in Whitespace
    THEN rstrip(SubSeq(s, 1, Len(s) - 1))
    ELSE s

\* str.strip()
strip(s) == rstrip(lstrip(s))

\* the index of the first tok in s, 0 when there is none
RECURSIVE IndexFrom(_, _, _)
IndexFrom(s, tok, i) ==
    IF i > Len(s) THEN 0
    ELSE IF s[i] = tok THEN i
    ELSE IndexFrom(s, tok, i + 1)

\* str.split(sep): every piece between separators, empty pieces included
RECURSIVE split(_, _)
split(s, sep) ==
    LET i == IndexFrom(s, sep, 1)
    IN  IF i = 0 THEN <<s>>
        ELSE <<SubSeq(s, 1, i - 1)>> \o split(SubSeq(s, i + 1, Len(s)), sep)

\* the index of the last tok in s, 0 when there is none
RECURSIVE IndexBack(_, _, _)
IndexBack(s, tok, i) ==
    IF i < 1 THEN 0
    ELSE IF s[i] = tok THEN i
    ELSE IndexBack(s, tok, i - 1)

split1_last(s, sep) ==
    LET i == IndexBack(s, sep, Len(s))
    IN  IF i = 0 THEN <<s>>
        ELSE <<SubSeq(s, 1, i - 1), SubSeq(s, i + 1, Len(s))>>

\* str.split(sep, 1): cut at the first separator only
split1(s, sep) ==
    LET i == IndexFrom(s, sep, 1)
    IN  IF i = 0 THEN <<s>>
        ELSE <<SubSeq(s, 1, i - 1), SubSeq(s, i + 1, Len(s))>>

Digit(d) ==
    CASE d = 0 -> "0" [] d = 1 -> "1" [] d = 2 -> "2" [] d = 3 -> "3" [] d = 4 -> "4"
      [] d = 5 -> "5" [] d = 6 -> "6" [] d = 7 -> "7" [] d = 8 -> "8" [] d = 9 -> "9"

\* str(n) of an int n >= 0: its decimal digits
RECURSIVE str(_)
str(n) == IF n < 10 THEN <<Digit(n)>> ELSE str(n \div 10) \o <<Digit(n % 10)>>

\* --------------------------------------------------- SingleTaskListStorage
\* __init__
SingleTaskListStorage == [tasks |-> <<>>, task_id_counter |-> 0]

append_left(st, t) == [st EXCEPT !.tasks = <<t>> \o @]

append(st, t) == [st EXCEPT !.tasks = Append(@, t)]

replace_resetting(st, ts) == [tasks |-> ts, task_id_counter |-> 0]

replace(st, ts) == [st EXCEPT !.tasks = ts]

is_empty(st) == IF st.tasks # <<>> THEN FALSE ELSE TRUE

popleft_peeking(st) == [value |-> Head(st.tasks), store |-> st]

\* popleft on a non-empty deque: the value returned and the store left
popleft(st) == [value |-> Head(st.tasks), store |-> [st EXCEPT !.tasks = Tail(@)]]

next_task_id(st) ==
    [value |-> st.task_id_counter + 1,
     store |-> [st EXCEPT !.task_id_counter = @ + 1]]

get_task_names(st) == [i \in 1..Len(st.tasks) |-> st.tasks[i].task_name]

\* ------------------------------------------------------ Thought, ThoughtTree
\* Thought objects live in a heap, a sequence; a reference is an index into it.
Thought(task_name, parent) ==
    [task_name |-> task_name, parent |-> parent, children |-> <<>>]

\* Thought.add_child on the heap
add_child(heap, parent, child) ==
    [heap EXCEPT ![parent].children = Append(@, child)]

\* ThoughtTree.__init__
ThoughtTree == [root |-> None]

add_thought_rooting(heap, tree, task_name, parent) ==
    LET new_thought == Len(heap) + 1
        heap1 == Append(heap, Thought(task_name, parent))
    IN  [heap |-> IF parent # None THEN add_child(heap1, parent, new_thought) ELSE heap1,
         tree |-> [tree EXCEPT !.root = new_thought],
         value |-> new_thought]

\* ThoughtTree.add_thought: the heap and tree after it, and the Thought returned
add_thought(heap, tree, task_name, parent) ==
    LET new_thought == Len(heap) + 1
        heap1 == Append(heap, Thought(task_name, parent))
    IN  IF parent # None
        THEN [heap |-> add_child(heap1, parent, new_thought),
              tree |-> tree,
              value |-> new_thought]
        ELSE [heap |-> heap1,
              tree |-> [tree EXCEPT !.root = new_thought],
              value |-> new_thought]

\* the while loop of get_next_thought, on an explicit stack of references
RECURSIVE next_thought_loop(_, _)
next_thought_loop(heap, stack) ==
    IF stack = <<>> THEN None
    ELSE LET thought == stack[Len(stack)]
             rest == SubSeq(stack, 1, Len(stack) - 1)
         IN  IF thought = None THEN AttributeError
             ELSE IF heap[thought].children = <<>> THEN thought
             ELSE next_thought_loop(heap, rest \o heap[thought].children)

RECURSIVE next_thought_loop_fifo(_, _)
next_thought_loop_fifo(heap, stack) ==
    IF stack = <<>> THEN None
    ELSE LET thought == Head(stack)
             rest == Tail(stack)
         IN  IF thought = None THEN AttributeError
             ELSE IF heap[thought].children = <<>> THEN thought
             ELSE next_thought_loop_fifo(heap, rest \o heap[thought].children)

get_next_thought_fifo(heap, tree) == next_thought_loop_fifo(heap, <<tree.root>>)

get_next_thought(heap, tree) == next_thought_loop(heap, <<tree.root>>)

is_thought_tree_empty(tree) == tree.root = None

\* ------------------------------------------------------- task generation
task_map(task_name) ==
    CASE task_name = <<"INITIAL_TASK">> ->
            << <<"Define problem">>, <<"Gather resources">>, <<"Develop plan">> >>
      [] task_name = <<"Define problem">> ->
            << <<"Identify key components">>, <<"Determine constraints">>,
               <<"Set goals">> >>
      [] task_name = <<"Gather resources">> ->
            << <<"Search for information">>, <<"Organize resources">>,
               <<"Evaluate resources">> >>
      [] task_name = <<"Develop plan">> ->
            << <<"Outline steps">>, <<"Assign responsibilities">>,
               <<"Set timeline">> >>
      [] OTHER -> <<>>

generate_tasks_based_on_thought(heap, thought) == task_map(heap[thought].task_name)

\* the for loop of task_creation_agent: one add_thought per name, under parent
RECURSIVE add_thoughts(_, _, _, _)
add_thoughts(heap, tree, names, parent) ==
    IF names = <<>> THEN [heap |-> heap, tree |-> tree]
    ELSE LET r == add_thought(heap, tree, Head(names), parent)
         IN  add_thoughts(r.heap, r.tree, Tail(names), parent)

\* task_creation_agent(objective, result, task_description, thought_tree):
\* the thought it works on is thought_tree.root
task_creation_agent(heap, tree) ==
    LET current_thought == tree.root
        new_tasks == generate_tasks_based_on_thought(heap, current_thought)
        r == add_thoughts(heap, tree, new_tasks, current_thought)
    IN  [heap |-> r.heap, tree |-> r.tree, value |-> new_tasks]

\* the for loop of main that appends one task per generated name
RECURSIVE append_new_tasks(_, _)
append_new_tasks(st, names) ==
    IF names = <<>> THEN st
    ELSE LET id == next_task_id(st)
         IN  append_new_tasks(
                 append(id.store, [task_id |-> IntId(id.value), task_name |-> Head(names)]),
                 Tail(names))

\* ---------------------------------------------------------- prioritization
\* the parsing loop of prioritization_agent over the lines of the response
RECURSIVE parse_lines(_)
parse_lines(lines) ==
    IF lines = <<>> THEN <<>>
    ELSE LET task_parts == split1(strip(Head(lines)), ".")
         IN  (IF Len(task_parts) = 2
              THEN << [task_id |-> StrId(strip(task_parts[1])),
                       task_name |-> strip(task_parts[2])] >>
              ELSE <<>>)
             \o parse_lines(Tail(lines))

new_tasks_list(response) ==
    parse_lines(IF Contains(response, "\n") THEN split(response, "\n") ELSE <<response>>)

\* what openai_call returns for the text the service answered
openai_call(text) == strip(text)


\* ------------------------------------------------------------------ state
VARIABLES
    JOIN_EXISTING_OBJECTIVE,  \* run configuration, fixed during a run
    INITIAL_TASK,             \* run configuration, fixed during a run
    tasks_storage,            \* the SingleTaskListStorage object
    thoughts,                 \* the heap of Thought objects
    thought_tree,             \* the ThoughtTree object
    pc,                       \* where the program is
    iter,                     \* loop iterations completed
    current_thought,          \* main's local
    task,                     \* main's local
    result,                   \* main's local
    new_tasks,                \* main's local
    attempts,                 \* failed attempts of the openai_call in progress
    memory,                   \* the upserts made so far, in order
    error,                    \* the exception that ended the run
    executed,                 \* history: the thoughts handed to execution_agent
    held,                     \* history: every task the store has held
    steps,                    \* history: the steps the run has completed, in order
    calls                     \* history: the calls made on a store or a tree

config == <<JOIN_EXISTING_OBJECTIVE, INITIAL_TASK>>
locals == <<current_thought, task, result, new_tasks>>
driver == <<pc, iter, attempts, memory, error, executed, held, steps>>
treevars == <<thoughts, thought_tree>>
vars == <<config, tasks_storage, treevars, locals, driver, calls>>

\* the state before the first statement that touches the store or the tree
Constructed ==
    /\ tasks_storage = SingleTaskListStorage
    /\ thoughts = <<>>
    /\ thought_tree = ThoughtTree
    /\ iter = 0
    /\ current_thought = None
    /\ task = NoTask
    /\ result = <<>>
    /\ new_tasks = <<>>
    /\ attempts = 0
    /\ memory = <<>>
    /\ error = "none"
    /\ executed = <<>>
    /\ held = {}
    /\ steps = <<>>
    /\ calls = <<>>

\* the tasks a store holds, as a set
Tasks(st) == { st.tasks[i] : i \in 1..Len(st.tasks) }

LastCall == calls[Len(calls)]
\* a call made, its argument, and what it returned or the exception it raised
Call(op, arg, ret, raised) == [op |-> op, arg |-> arg, ret |-> ret, raised |-> raised]

\* ------------------------------------------------- the store, called freely
\* tasks a caller builds and hands to append and replace
TaskPool ==
    { [task_id |-> IntId(1), task_name |-> <<"a">>],
      [task_id |-> IntId(2), task_name |-> <<"b">>] }

TaskLists == { <<>>, << [task_id |-> StrId(<<"7">>), task_name |-> <<"c">>] >> }

StoreInit ==
    /\ Constructed
    /\ pc = "store"
    /\ JOIN_EXISTING_OBJECTIVE = FALSE
    /\ INITIAL_TASK = <<>>

S_append ==
    /\ pc = "store" /\ Len(calls) < MaxOps
    /\ \E t \in TaskPool :
        /\ tasks_storage' = append(tasks_storage, t)
        /\ calls' = Append(calls, Call("append", t, None, "none"))
    /\ UNCHANGED <<config, treevars, locals, driver>>

S_replace ==
    /\ pc = "store" /\ Len(calls) < MaxOps
    /\ \E ts \in TaskLists :
        /\ tasks_storage' = replace(tasks_storage, ts)
        /\ calls' = Append(calls, Call("replace", ts, None, "none"))
    /\ UNCHANGED <<config, treevars, locals, driver>>

\* deque.popleft raises IndexError on an empty deque
S_popleft ==
    /\ pc = "store" /\ Len(calls) < MaxOps
    /\ IF tasks_storage.tasks = <<>>
       THEN /\ calls' = Append(calls, Call("popleft", None, None, "IndexError"))
            /\ UNCHANGED tasks_storage
       ELSE /\ tasks_storage' = popleft(tasks_storage).store
            /\ calls' = Append(calls, Call("popleft", None, popleft(tasks_storage).value, "none"))
    /\ UNCHANGED <<config, treevars, locals, driver>>

S_is_empty ==
    /\ pc = "store" /\ Len(calls) < MaxOps
    /\ calls' = Append(calls, Call("is_empty", None, is_empty(tasks_storage), "none"))
    /\ UNCHANGED <<config, tasks_storage, treevars, locals, driver>>

S_next_task_id ==
    /\ pc = "store" /\ Len(calls) < MaxOps
    /\ tasks_storage' = next_task_id(tasks_storage).store
    /\ calls' = Append(calls, Call("next_task_id", None, next_task_id(tasks_storage).value, "none"))
    /\ UNCHANGED <<config, treevars, locals, driver>>

S_get_task_names ==
    /\ pc = "store" /\ Len(calls) < MaxOps
    /\ calls' = Append(calls, Call("get_task_names", None, get_task_names(tasks_storage), "none"))
    /\ UNCHANGED <<config, tasks_storage, treevars, locals, driver>>

StoreNext ==
    \/ S_append
    \/ S_replace
    \/ S_popleft
    \/ S_is_empty
    \/ S_next_task_id
    \/ S_get_task_names

StoreSpec == StoreInit /\ [][StoreNext]_vars

\* -------------------------------------------------- the tree, called freely
ThoughtNames == { <<"Define problem">>, <<"Set goals">> }

TreeInit ==
    /\ Constructed
    /\ pc = "tree"
    /\ JOIN_EXISTING_OBJECTIVE = FALSE
    /\ INITIAL_TASK = <<>>

\* add_thought(task_name) and add_thought(task_name, parent) for any Thought built
T_add_thought ==
    /\ pc = "tree" /\ Len(calls) < MaxOps /\ Len(thoughts) < MaxThoughts
    /\ \E name \in ThoughtNames, parent \in 0..Len(thoughts) :
        LET r == add_thought(thoughts, thought_tree, name, parent)
        IN  /\ thoughts' = r.heap
            /\ thought_tree' = r.tree
            /\ calls' = Append(calls, Call("add_thought", parent, r.value, "none"))
    /\ UNCHANGED <<config, tasks_storage, locals, driver>>

T_get_next_thought ==
    /\ pc = "tree" /\ Len(calls) < MaxOps
    /\ LET t == get_next_thought(thoughts, thought_tree)
       IN  calls' = Append(calls,
                           IF t = AttributeError
                           THEN Call("get_next_thought", None, None, "AttributeError")
                           ELSE Call("get_next_thought", None, t, "none"))
    /\ UNCHANGED <<config, tasks_storage, treevars, locals, driver>>

T_is_thought_tree_empty ==
    /\ pc = "tree" /\ Len(calls) < MaxOps
    /\ calls' = Append(calls,
                       Call("is_thought_tree_empty", None, is_thought_tree_empty(thought_tree),
                            "none"))
    /\ UNCHANGED <<config, tasks_storage, treevars, locals, driver>>

TreeNext ==
    \/ T_add_thought
    \/ T_get_next_thought
    \/ T_is_thought_tree_empty

TreeSpec == TreeInit /\ [][TreeNext]_vars


\* ------------------------------------------------------------ the program
\* INITIAL_TASK values a run is started with: two keys of task_map, one other
InitialTasks == { <<"Define problem">>, <<"INITIAL_TASK">>, <<"Develop a task list">> }

\* texts the completion service answers to the prioritization prompt
Responses ==
    { <<"2", ".", " ", "Pack bags", "\n", "3", ".", " ", "Book flight", "\n",
        "NOISE LINE", "\n", "4", ".", " ", "Confirm hotel">>,
      <<>>,
      <<"2", ".", " ", "Set goals", "\n", "2", ".", "Set timeline">>,
      <<" ", "1", ".", "Define problem", ".", "v", "\n">> }

\* texts the completion service answers to a thought's task name
Results == { <<"done">>, <<" ", "ok", ".", "\r", "\n">> }

\* the exceptions openai_call catches and retries
RetriedErrors ==
    { "RateLimitError", "Timeout", "APIError", "APIConnectionError",
      "InvalidRequestError", "ServiceUnavailableError" }

\* the failures of an attempt that are followed here: rate limit, timeout, API
\* error, connection error, invalid request, service unavailable
OracleErrors == RetriedErrors

caught_transient(e) == e \in RetriedErrors \ {"InvalidRequestError"}

\* the except clauses of openai_call
caught(e) == e \in RetriedErrors

keep_trying_limited(n) == n < 1

\* while True: the loop of openai_call goes round after any number of failures
keep_trying(n) == TRUE

\* a completed step of the run: its name, the id or reference it worked with (0
\* when it has none) and the text it produced (empty when it has none)
Event(step, id, text) == [step |-> step, id |-> id, text |-> text]

\* f"result_{task['task_id']}"
result_id(id) == <<"result_">> \o (IF id.ty = "int" THEN str(id.n) ELSE id.s)

\* the state before the first statement that touches the store or the tree, for
\* a run started with the given configuration on the given store
Started(join, store) ==
    /\ JOIN_EXISTING_OBJECTIVE = join
    /\ INITIAL_TASK \in InitialTasks
    /\ pc = "seed"
    /\ tasks_storage = store
    /\ held = Tasks(store)
    /\ thoughts = <<>>
    /\ thought_tree = ThoughtTree
    /\ iter = 0
    /\ current_thought = None
    /\ task = NoTask
    /\ result = <<>>
    /\ new_tasks = <<>>
    /\ attempts = 0
    /\ memory = <<>>
    /\ error = "none"
    /\ executed = <<>>
    /\ steps = <<>>
    /\ calls = <<>>

\* JOIN_EXISTING_OBJECTIVE = False, tasks_storage = SingleTaskListStorage()
Init == Started(FALSE, SingleTaskListStorage)

\* The store a joining run finds: JOIN_EXISTING_OBJECTIVE is set only together with
\* a store shared with the instances already working on the objective, which holds
\* the counter and the tasks they have queued.
JoinedStore ==
    [tasks |-> << [task_id |-> IntId(1), task_name |-> <<"Develop a task list">>],
                  [task_id |-> IntId(2), task_name |-> <<"Gather resources">>] >>,
     task_id_counter |-> 2]

JoinInit == Started(TRUE, JoinedStore)

\* if not JOIN_EXISTING_OBJECTIVE: append the initial task
Seed ==
    /\ pc = "seed"
    /\ pc' = "main"
    /\ IF ~JOIN_EXISTING_OBJECTIVE
       THEN LET id == next_task_id(tasks_storage)
                initial_task == [task_id |-> IntId(id.value), task_name |-> INITIAL_TASK]
            IN  /\ tasks_storage' = append(id.store, initial_task)
                /\ steps' = Append(steps, Event("seed", id.value, INITIAL_TASK))
       ELSE UNCHANGED <<tasks_storage, steps>>
    /\ held' = held \cup Tasks(tasks_storage')
    /\ UNCHANGED <<config, treevars, locals, iter, attempts, memory, error, executed, calls>>

\* main: thought_tree = ThoughtTree(); thought_tree.add_thought(INITIAL_TASK)
MainStart ==
    /\ pc = "main"
    /\ pc' = "loop"
    /\ LET r == add_thought(thoughts, ThoughtTree, INITIAL_TASK, None)
       IN  /\ thoughts' = r.heap
           /\ thought_tree' = r.tree
    /\ UNCHANGED <<config, tasks_storage, locals, iter, attempts, memory, error, executed,
                   held, steps, calls>>

\* while not is_thought_tree_empty(thought_tree)
LoopTest ==
    /\ pc = "loop" /\ iter < MaxIter
    /\ pc' = IF ~is_thought_tree_empty(thought_tree) THEN "select" ELSE "done"
    /\ UNCHANGED <<config, tasks_storage, treevars, locals, iter, attempts, memory, error,
                   executed, held, steps, calls>>

\* current_thought = get_next_thought(thought_tree)
SelectThought ==
    /\ pc = "select"
    /\ LET t == get_next_thought(thoughts, thought_tree)
       IN  IF t = AttributeError
           THEN /\ pc' = "crashed" /\ error' = "AttributeError"
                /\ UNCHANGED <<current_thought, steps>>
           ELSE /\ pc' = "pop" /\ current_thought' = t
                /\ steps' = Append(steps, Event("select", t, <<>>))
                /\ UNCHANGED error
    /\ UNCHANGED <<config, tasks_storage, treevars, task, result, new_tasks, iter, attempts,
                   memory, executed, held, calls>>

\* task = tasks_storage.popleft(); IndexError ends the run
PopTask ==
    /\ pc = "pop"
    /\ IF tasks_storage.tasks = <<>>
       THEN /\ pc' = "crashed" /\ error' = "IndexError"
            /\ UNCHANGED <<tasks_storage, task, steps>>
       ELSE /\ pc' = "execute"
            /\ task' = popleft(tasks_storage).value
            /\ tasks_storage' = popleft(tasks_storage).store
            /\ steps' = Append(steps, Event("dequeue", 0, task'.task_name))
            /\ UNCHANGED error
    /\ UNCHANGED <<config, treevars, current_thought, result, new_tasks, iter, attempts,
                   memory, executed, held, calls>>

\* where the program is inside openai_call
InCall == pc \in {"execute", "prio_call"}

\* openai_call: an attempt raises an error; one that an except clause catches is
\* followed by time.sleep(10) and the next round of the loop.  attempts counts the
\* failed attempts of the call in progress, MaxAttempts standing for that many or more.
OpenaiRetry ==
    /\ InCall
    /\ keep_trying(attempts)
    /\ \E e \in OracleErrors :
          IF caught(e)
          THEN /\ attempts' = IF attempts < MaxAttempts THEN attempts + 1 ELSE attempts
               /\ UNCHANGED <<pc, error>>
          ELSE /\ pc' = "crashed" /\ error' = e
               /\ UNCHANGED attempts
    /\ UNCHANGED <<config, tasks_storage, treevars, locals, iter, memory, executed, held,
                   steps, calls>>

\* result = execution_agent(OBJECTIVE, current_thought): the attempt that succeeds
ExecuteReturn ==
    /\ pc = "execute"
    /\ IF current_thought = None
       THEN /\ pc' = "crashed" /\ error' = "AttributeError"
            /\ UNCHANGED <<result, executed, attempts, steps>>
       ELSE /\ pc' = "persist"
            /\ \E text \in Results : result' = openai_call(text)
            /\ steps' = Append(steps, Event("execute", current_thought, result'))
            /\ executed' = Append(executed, current_thought)
            /\ attempts' = 0
            /\ UNCHANGED error
    /\ UNCHANGED <<config, tasks_storage, treevars, current_thought, task, new_tasks, iter,
                   memory, held, calls>>

Persist_skipped ==
    /\ pc = "persist"
    /\ pc' = "create"
    /\ UNCHANGED <<config, tasks_storage, treevars, locals, iter, attempts, error, executed,
                   held, calls, memory, steps>>

\* get_ada_embedding and index.upsert of the result under result_id
Persist ==
    /\ pc = "persist"
    /\ pc' = "create"
    /\ memory' = Append(memory, [id |-> result_id(task.task_id),
                                 task |-> task.task_name,
                                 result |-> result])
    /\ steps' = Append(steps, Event("persist", 0, result_id(task.task_id)))
    /\ UNCHANGED <<config, tasks_storage, treevars, locals, iter, attempts, error, executed,
                   held, calls>>

\* new_tasks = task_creation_agent(OBJECTIVE, result, current_thought.task_name, thought_tree)
CreateTasks ==
    /\ pc = "create"
    /\ pc' = "append"
    /\ LET r == task_creation_agent(thoughts, thought_tree)
       IN  /\ thoughts' = r.heap
           /\ thought_tree' = r.tree
           /\ new_tasks' = r.value
    /\ steps' = Append(steps, Event("generate", Len(new_tasks'), <<>>))
    /\ UNCHANGED <<config, tasks_storage, current_thought, task, result, iter, attempts,
                   memory, error, executed, held, calls>>

\* for task_name in new_tasks: append a task with the next id
AppendTasks ==
    /\ pc = "append"
    /\ pc' = "prioritize"
    /\ tasks_storage' = append_new_tasks(tasks_storage, new_tasks)
    /\ held' = held \cup Tasks(tasks_storage')
    /\ steps' = Append(steps, Event("append", Len(new_tasks), <<>>))
    /\ UNCHANGED <<config, treevars, locals, iter, attempts, memory, error, executed, calls>>

Prioritize_peeking ==
    /\ pc = "prioritize"
    /\ IF ~JOIN_EXISTING_OBJECTIVE
       THEN /\ pc' = "prio_call"
            /\ steps' = Append(steps,
                               Event("prioritize", next_task_id(tasks_storage).value, <<>>))
            /\ UNCHANGED tasks_storage
       ELSE /\ pc' = "sleep"
            /\ UNCHANGED <<tasks_storage, steps>>
    /\ UNCHANGED <<config, treevars, locals, iter, attempts, memory, error, executed, held, calls>>

Prioritize_always ==
    /\ pc = "prioritize"
    /\ pc' = "prio_call"
    /\ tasks_storage' = next_task_id(tasks_storage).store
    /\ steps' = Append(steps, Event("prioritize", next_task_id(tasks_storage).value, <<>>))
    /\ UNCHANGED <<config, treevars, locals, iter, attempts, memory, error, executed, held, calls>>

\* if not JOIN_EXISTING_OBJECTIVE: prioritization_agent(), up to its openai_call
Prioritize ==
    /\ pc = "prioritize"
    /\ IF ~JOIN_EXISTING_OBJECTIVE
       THEN /\ pc' = "prio_call"
            /\ tasks_storage' = next_task_id(tasks_storage).store
            /\ steps' = Append(steps,
                               Event("prioritize", next_task_id(tasks_storage).value, <<>>))
       ELSE /\ pc' = "sleep"
            /\ UNCHANGED <<tasks_storage, steps>>
    /\ UNCHANGED <<config, treevars, locals, iter, attempts, memory, error, executed, held, calls>>

\* prioritization_agent from the answer on: parse it and replace the store
PrioritizeReturnOf(texts) ==
    /\ pc = "prio_call"
    /\ pc' = "sleep"
    /\ \E text \in texts :
        LET response == openai_call(text)
        IN  /\ tasks_storage' = replace(tasks_storage, new_tasks_list(response))
            /\ steps' = Append(steps, Event("replace", 0, response))
    /\ held' = held \cup Tasks(tasks_storage')
    /\ attempts' = 0
    /\ UNCHANGED <<config, treevars, locals, iter, memory, error, executed, calls>>

PrioritizeReturn == PrioritizeReturnOf(Responses)

\* time.sleep(5), and back to the loop test
Sleep ==
    /\ pc = "sleep"
    /\ pc' = "loop"
    /\ iter' = iter + 1
    /\ steps' = Append(steps, Event("pause", 0, <<>>))
    /\ UNCHANGED <<config, tasks_storage, treevars, locals, attempts, memory, error,
                   executed, held, calls>>

Next ==
    \/ Seed
    \/ MainStart
    \/ LoopTest
    \/ SelectThought
    \/ PopTask
    \/ OpenaiRetry
    \/ ExecuteReturn
    \/ Persist
    \/ CreateTasks
    \/ AppendTasks
    \/ Prioritize
    \/ PrioritizeReturn
    \/ Sleep

Spec == Init /\ [][Next]_vars

\* a run that joins an existing objective
JoinSpec == JoinInit /\ [][Next]_vars

\* The first iteration of a run, with the answer to the prioritization prompt drawn
\* from every text of up to MaxText tokens over a small alphabet, and from Responses.
Alphabet == {"2", ".", " ", "\n", "\r", "A"}
BoundedTexts == UNION { [1..n -> Alphabet] : n \in 0..MaxText }

PrioritizeReturnAny == PrioritizeReturnOf(BoundedTexts \cup Responses)

\* the loop test of the first iteration only
FirstLoopTest == iter = 0 /\ LoopTest

ParseNext ==
    \/ Seed
    \/ MainStart
    \/ FirstLoopTest
    \/ SelectThought
    \/ PopTask
    \/ OpenaiRetry
    \/ ExecuteReturn
    \/ Persist
    \/ CreateTasks
    \/ AppendTasks
    \/ Prioritize
    \/ PrioritizeReturnAny
    \/ Sleep

ParseSpec == Init /\ [][ParseNext]_vars

\* a run of either kind
RunSpec == (Init \/ JoinInit) /\ [][Next]_vars

\* a run in which every openai_call meets an attempt that succeeds
FairSpec == Spec /\ WF_vars(ExecuteReturn) /\ WF_vars(PrioritizeReturn)


\* ------------------------------------------------- readings of the history
\* the arguments of the append calls, and the values popleft returned, in order
RECURSIVE AppendedIn(_)
AppendedIn(log) ==
    IF log = <<>> THEN <<>>
    ELSE (IF Head(log).op = "append" THEN <<Head(log).arg>> ELSE <<>>)
         \o AppendedIn(Tail(log))

RECURSIVE ReturnedIn(_)
ReturnedIn(log) ==
    IF log = <<>> THEN <<>>
    ELSE (IF Head(log).op = "popleft" /\ Head(log).raised = "none"
          THEN <<Head(log).ret>> ELSE <<>>)
         \o ReturnedIn(Tail(log))

RECURSIVE IdsIn(_)
IdsIn(log) ==
    IF log = <<>> THEN <<>>
    ELSE (IF Head(log).op = "next_task_id" THEN <<Head(log).ret>> ELSE <<>>)
         \o IdsIn(Tail(log))

Made(op) == \E i \in 1..Len(calls) : calls[i].op = op

\* the thoughts of the tree: those reachable from the root
RECURSIVE Below(_, _)
Below(heap, t) ==
    {t} \cup UNION { Below(heap, heap[t].children[i]) : i \in 1..Len(heap[t].children) }

InTree == IF thought_tree.root = None THEN {} ELSE Below(thoughts, thought_tree.root)
Leaves == { t \in InTree : thoughts[t].children = <<>> }
Executed == { executed[i] : i \in 1..Len(executed) }
UnexploredLeaves == Leaves \ Executed

\* the leaf reached from t by always going to the child added last
RECURSIVE LastAddedDescent(_, _)
LastAddedDescent(heap, t) ==
    IF heap[t].children = <<>> THEN t
    ELSE LastAddedDescent(heap, heap[t].children[Len(heap[t].children)])

\* ------------------------------------------------------------------ claims

\* C1: with no replace among the calls made on a store, the k-th successful popleft
\* returns the task of the k-th append, so tasks come out in the order they were
\* appended, none that was not appended and none twice.
C1_Fifo ==
    ~Made("replace") =>
        LET a == AppendedIn(calls)
            r == ReturnedIn(calls)
        IN  /\ Len(r) <= Len(a)
            /\ \A k \in 1..Len(r) : r[k] = a[k]

\* two different tasks appended and both popped, with no replace
C1_Witness ==
    /\ ~Made("replace")
    /\ Len(ReturnedIn(calls)) >= 2
    /\ ReturnedIn(calls)[1] # ReturnedIn(calls)[2]

\* C2: the values next_task_id returns on one store start at 1 and strictly
\* increase, whatever other calls are made on the store in between.
C2_IdsIncrease ==
    LET ids == IdsIn(calls)
    IN  /\ ids # <<>> => ids[1] = 1
        /\ \A i \in 1..(Len(ids) - 1) : ids[i] < ids[i + 1]

\* two ids handed out with an append, a replace and a popleft made before the second
C2_Witness ==
    /\ Len(IdsIn(calls)) >= 2
    /\ LastCall.op = "next_task_id"
    /\ Made("append") /\ Made("replace") /\ Made("popleft")

\* C3: no two tasks in the store share a task_id, and a task_id a task of the store
\* has held is never held by a different task.
C3_UniqueIds ==
    /\ \A i, j \in 1..Len(tasks_storage.tasks) :
          i # j => tasks_storage.tasks[i].task_id # tasks_storage.tasks[j].task_id
    /\ \A t, u \in held : t.task_id = u.task_id => t = u

\* C4: on a tree with a root, get_next_thought returns a thought without children,
\* the one reached from the root by always descending to the child added last.
C4_NextIsLastAddedLeaf ==
    (calls # <<>> /\ LastCall.op = "get_next_thought" /\ thought_tree.root # None) =>
        /\ LastCall.raised = "none"
        /\ LastCall.ret \in 1..Len(thoughts)
        /\ thoughts[LastCall.ret].children = <<>>
        /\ LastCall.ret = LastAddedDescent(thoughts, thought_tree.root)

\* get_next_thought called on a root with two children, the later one with a child
C4_Witness ==
    /\ calls # <<>> /\ LastCall.op = "get_next_thought"
    /\ thought_tree.root # None
    /\ Len(thoughts[thought_tree.root].children) = 2
    /\ thoughts[thoughts[thought_tree.root].children[2]].children # <<>>
    /\ LastCall.ret = thoughts[thoughts[thought_tree.root].children[2]].children[1]

\* C5: the thought the loop selects has not been executed before, and when every
\* leaf has been executed get_next_thought returns None.
C5_SelectsUnexplored ==
    pc = "pop" =>
        IF UnexploredLeaves = {} THEN current_thought = None
        ELSE current_thought \notin Executed

\* C6: the loop ends, in DONE, exactly when no unexplored leaf remains: its body is
\* entered only while one remains, and DONE is reached only when none does.
C6_DoneWhenExhausted ==
    /\ pc = "select" => UnexploredLeaves # {}
    /\ pc = "done" => UnexploredLeaves = {}

\* C7: whenever the loop is about to popleft, the store holds at least one task.
C7_NoPopOnEmpty ==
    /\ pc = "pop" => ~is_empty(tasks_storage)
    /\ error # "IndexError"

\* C8: add_thought with no parent on a tree that has a root leaves the root as it is.
C8_RootKept ==
    [][(/\ thought_tree.root # None
        /\ calls' # calls
        /\ LastCall'.op = "add_thought"
        /\ LastCall'.arg = None)
       => thought_tree'.root = thought_tree.root]_vars

\* C9: get_next_thought on a tree without a root returns None and raises nothing.
C9_NoneOnEmptyTree ==
    (calls # <<>> /\ LastCall.op = "get_next_thought" /\ thought_tree.root = None) =>
        /\ LastCall.raised = "none"
        /\ LastCall.ret = None

\* C10: task generation appends, under the thought just executed and nowhere else,
\* one child per name the policy returns for that thought, in order, and the store
\* then gains one task per name, in order, each with the next id.
C10_ChildrenUnderCurrent ==
    /\ [][(pc = "create" /\ pc' = "append") =>
            LET names == task_map(thoughts[current_thought].task_name)
                n == Len(thoughts)
            IN  /\ Len(thoughts') = n + Len(names)
                /\ \A k \in 1..Len(names) :
                      /\ thoughts'[n + k].task_name = names[k]
                      /\ thoughts'[n + k].parent = current_thought
                /\ thoughts'[current_thought].children =
                      thoughts[current_thought].children \o [k \in 1..Len(names) |-> n + k]
                /\ \A t \in 1..n : t # current_thought => thoughts'[t] = thoughts[t]
                /\ new_tasks' = names]_vars
    /\ [][(pc = "append" /\ pc' = "prioritize") =>
            LET names == task_map(thoughts[current_thought].task_name)
                c == tasks_storage.task_id_counter
            IN  tasks_storage'.tasks =
                    tasks_storage.tasks
                    \o [k \in 1..Len(names) |->
                          [task_id |-> IntId(c + k), task_name |-> names[k]]]]_vars


\* the names of the children of a thought, in order
ChildNames(t) ==
    [i \in 1..Len(thoughts[t].children) |-> thoughts[thoughts[t].children[i]].task_name]

DefineProblemChildren ==
    << <<"Identify key components">>, <<"Determine constraints">>, <<"Set goals">> >>

DefineProblemTasks ==
    [k \in 1..3 |-> [task_id |-> IntId(k + 1), task_name |-> DefineProblemChildren[k]]]

\* the first iteration, from the end of its task generation on
FirstGenerated == iter = 0 /\ pc \in {"prioritize", "prio_call", "sleep"}
FirstIterationDone == iter = 1 /\ pc = "loop"

\* C11 as stated: started with "Define problem", when the first iteration is complete
\* the store holds exactly the three generated tasks with ids 2, 3, 4 and the root has
\* exactly the three children.
C11_AfterIteration ==
    (INITIAL_TASK = <<"Define problem">> /\ FirstIterationDone) =>
        /\ tasks_storage.tasks = DefineProblemTasks
        /\ ChildNames(thought_tree.root) = DefineProblemChildren

\* C11 amended: started with "Define problem", when the first iteration has generated
\* its tasks and has not yet prioritized, the store holds exactly the three generated
\* tasks with ids 2, 3, 4 (the task with id 1 has been dequeued); the root has exactly
\* the three children from then to the end of the iteration.
C11_AfterGeneration ==
    INITIAL_TASK = <<"Define problem">> =>
        /\ (iter = 0 /\ pc = "prioritize") =>
              /\ tasks_storage.tasks = DefineProblemTasks
              /\ task = [task_id |-> IntId(1), task_name |-> <<"Define problem">>]
        /\ (FirstGenerated \/ FirstIterationDone) =>
              ChildNames(thought_tree.root) = DefineProblemChildren

\* the first iteration of a run started with "Define problem" has generated its tasks
C11_Witness ==
    /\ INITIAL_TASK = <<"Define problem">>
    /\ iter = 0 /\ pc = "prioritize"
    /\ Len(tasks_storage.tasks) = 3


\* ---- the prioritized list, read off the response by positions
LastStep == steps[Len(steps)]
Did(step) == steps # <<>> /\ LastStep.step = step

\* the positions after which a line of r begins, and where the line from p ends
LineStarts(r) == {0} \cup { i \in 1..Len(r) : r[i] = "\n" }
LineEnd(r, p) ==
    LET ends == { q \in (p + 1)..(Len(r) + 1) : q = Len(r) + 1 \/ r[q] = "\n" }
    IN  CHOOSE q \in ends : \A q2 \in ends : q <= q2
LineAt(r, p) == SubSeq(r, p + 1, LineEnd(r, p) - 1)

\* x without the whitespace at its two ends
Trimmed(x) ==
    LET inked == { i \in 1..Len(x) : x[i] \notin Whitespace }
    IN  IF inked = {} THEN <<>>
        ELSE SubSeq(x, CHOOSE a \in inked : \A b \in inked : a <= b,
                       CHOOSE a \in inked : \A b \in inked : a >= b)

\* the task a line with a "." stands for: id before its first ".", name after it
TaskOfLine(l) ==
    LET d == CHOOSE i \in 1..Len(l) : l[i] = "." /\ \A j \in 1..(i - 1) : l[j] # "."
    IN  [task_id |-> StrId(Trimmed(SubSeq(l, 1, d - 1))),
         task_name |-> Trimmed(SubSeq(l, d + 1, Len(l)))]

RECURSIVE Ascending(_)
Ascending(S) ==
    IF S = {} THEN <<>>
    ELSE LET m == CHOOSE a \in S : \A b \in S : a <= b
         IN  <<m>> \o Ascending(S \ {m})

\* the lines of r that hold a ".", in order, each as the task it stands for
TasksOfResponse(r) ==
    LET starts == Ascending({ p \in LineStarts(r) : Contains(LineAt(r, p), ".") })
    IN  [k \in 1..Len(starts) |-> TaskOfLine(LineAt(r, starts[k]))]

PackBagsResponse ==
    <<"2", ".", " ", "Pack bags", "\n", "3", ".", " ", "Book flight", "\n",
      "NOISE LINE", "\n", "4", ".", " ", "Confirm hotel">>

\* C12: when the Prioritization Policy has replaced the store, the store holds, in
\* response order, one task per response line that has a ".", with the trimmed text
\* before the line's first "." as id and the trimmed text after it as name; lines
\* without a "." are dropped and nothing else stays in the store.  The response
\* "2. Pack bags", "3. Book flight", "NOISE LINE", "4. Confirm hotel" leaves exactly
\* three tasks with ids "2", "3", "4".
C12_StoreIsParsedResponse ==
    Did("replace") =>
        /\ tasks_storage.tasks = TasksOfResponse(LastStep.text)
        /\ LastStep.text = PackBagsResponse =>
              tasks_storage.tasks =
                  << [task_id |-> StrId(<<"2">>), task_name |-> <<"Pack bags">>],
                     [task_id |-> StrId(<<"3">>), task_name |-> <<"Book flight">>],
                     [task_id |-> StrId(<<"4">>), task_name |-> <<"Confirm hotel">>] >>

\* the store held generated tasks and was replaced on the response with the noise line
C12_Witness ==
    /\ Did("replace")
    /\ LastStep.text = PackBagsResponse
    /\ new_tasks # <<>>
    /\ Len(tasks_storage.tasks) = 3


\* what an openai_call can hand back: the trimmed text of an attempt that succeeded
ReturnedTexts(texts) == { strip(t) : t \in texts }

\* C13: a failed attempt of one of the retried kinds never ends the run and never
\* comes back to the driver: the step leaves the program inside the same
\* openai_call with the store, the tree, the locals and the memory as they were, and
\* what the call hands back is the text of an attempt that succeeded.
C13_FailuresAbsorbed ==
    /\ [](error \notin RetriedErrors)
    /\ [][attempts' = attempts + 1 =>
            /\ InCall /\ pc' = pc
            /\ UNCHANGED <<tasks_storage, thoughts, thought_tree, locals, memory, steps>>]_vars
    /\ [](Did("execute") => LastStep.text \in ReturnedTexts(Results))
    /\ [](Did("replace") => LastStep.text \in ReturnedTexts(Responses))

\* an openai_call of the prioritization has failed MaxAttempts times while the
\* store holds tasks and the tree has grown
C13_Witness ==
    /\ pc = "prio_call"
    /\ attempts = MaxAttempts
    /\ tasks_storage.tasks # <<>>
    /\ Len(thoughts) > 1


\* C14: no two upserts of a run use the same record id, so no task_id is dequeued
\* and executed twice.
C14_RecordWrittenOnce ==
    \A i, j \in 1..Len(memory) : i # j => memory[i].id # memory[j].id


\* how many steps of a name the run has completed
RECURSIVE CountIn(_, _)
CountIn(log, step) ==
    IF log = <<>> THEN 0
    ELSE (IF Head(log).step = step THEN 1 ELSE 0) + CountIn(Tail(log), step)

Count(step) == CountIn(steps, step)

\* C15: a joining run never seeds the store, never starts the Prioritization Policy
\* and never replaces the store.  A run that does not join seeds the store with
\* exactly one task, id 1 and name INITIAL_TASK, before anything else, and runs the
\* Prioritization Policy once in every iteration it completes, right after the
\* generated tasks are appended.
C15_JoinSkipsSeedAndPrioritization ==
    /\ JOIN_EXISTING_OBJECTIVE =>
          Count("seed") = 0 /\ Count("prioritize") = 0 /\ Count("replace") = 0
    /\ ~JOIN_EXISTING_OBJECTIVE =>
          /\ pc = "main" =>
                tasks_storage.tasks = << [task_id |-> IntId(1), task_name |-> INITIAL_TASK] >>
          /\ pc # "seed" =>
                Count("seed") = 1 /\ steps[1] = Event("seed", 1, INITIAL_TASK)
          /\ Count("replace") = iter + (IF pc = "sleep" THEN 1 ELSE 0)
          /\ Count("prioritize") = Count("replace") + (IF pc = "prio_call" THEN 1 ELSE 0)
          /\ \A i \in 1..Len(steps) :
                steps[i].step = "prioritize" => i > 1 /\ steps[i - 1].step = "append"

\* a joining run has completed an iteration
C15_Witness ==
    /\ JOIN_EXISTING_OBJECTIVE
    /\ iter >= 1
    /\ Count("append") >= 1


\* a is the beginning of b
IsPrefix(a, b) == Len(a) <= Len(b) /\ SubSeq(b, 1, Len(a)) = a

\* C16: once main has seeded the tree, no step replaces the root, removes a thought,
\* renames or re-parents one, or changes a thought's children other than by adding
\* at the tail; and the only step that changes the tree at all is the task generation.
C16_TreeOnlyGrows ==
    [][pc # "main" =>
         /\ thought_tree'.root = thought_tree.root
         /\ Len(thoughts') >= Len(thoughts)
         /\ \A t \in 1..Len(thoughts) :
               /\ thoughts'[t].task_name = thoughts[t].task_name
               /\ thoughts'[t].parent = thoughts[t].parent
               /\ IsPrefix(thoughts[t].children, thoughts'[t].children)
         /\ thoughts' # thoughts => pc = "create"]_vars

\* a second task generation has added thoughts to a tree that already had children
C16_Witness ==
    /\ pc = "append"
    /\ iter = 1
    /\ Len(thoughts[thought_tree.root].children) = 6


\* the steps of one loop iteration, in the order main takes them
Cycle ==
    IF JOIN_EXISTING_OBJECTIVE
    THEN <<"select", "dequeue", "execute", "persist", "generate", "append", "pause">>
    ELSE <<"select", "dequeue", "execute", "persist", "generate", "append",
           "prioritize", "replace", "pause">>

\* the steps main has taken, i.e. all but the seeding of the store
LoopSteps == IF steps # <<>> /\ steps[1].step = "seed" THEN Tail(steps) ELSE steps

\* C17: the steps of the loop follow the fixed cycle select, dequeue, execute, persist,
\* generate (and append), prioritize (and replace, unless joining), pause; the result is
\* persisted before the children are appended; and a step of the next iteration comes
\* only after the prioritization (when joining, the generation) of the one before.
C17_FixedOrder ==
    /\ \A i \in 1..Len(LoopSteps) :
          LoopSteps[i].step = Cycle[((i - 1) % Len(Cycle)) + 1]
    /\ Count("pause") = iter
    /\ Len(memory) = Count("persist")
    /\ Count("append") <= Count("persist")
    /\ pc = "append" => Len(memory) = iter + 1
    /\ Count("select") <=
          (IF JOIN_EXISTING_OBJECTIVE THEN Count("append") ELSE Count("replace")) + 1
    /\ Count("select") <= Count("pause") + 1

\* a second iteration has executed its thought
C17_Witness == iter = 1 /\ pc = "persist" /\ Count("execute") = 2


\* C18: inside an openai_call another failing attempt is possible after any number
\* of failures (no cutoff); the program leaves the call only by the step of an attempt
\* that succeeds, and as long as no such step is taken it stays where it is; and in a
\* run where the attempt that succeeds is not withheld forever, the call returns.
C18_RetriesWithoutCutoff ==
    /\ [](InCall => /\ ENABLED OpenaiRetry
                    /\ \A e \in OracleErrors : caught(e)
                    /\ "InvalidRequestError" \in OracleErrors)
    /\ [][InCall /\ pc' # pc =>
            /\ Len(steps') = Len(steps) + 1
            /\ steps'[Len(steps')].step = (IF pc = "execute" THEN "execute" ELSE "replace")
            /\ pc' = (IF pc = "execute" THEN "persist" ELSE "sleep")]_vars
    /\ [][InCall /\ steps' = steps =>
            pc' = pc /\ iter' = iter /\ attempts' >= attempts]_vars
    /\ (pc = "execute") ~> (pc = "persist")
    /\ (pc = "prio_call") ~> (pc = "sleep")

\* the execution's openai_call has failed MaxAttempts times or more in the second
\* iteration and is still trying
C18_Witness == pc = "execute" /\ attempts = MaxAttempts /\ iter = 1


\* C19: the task dequeued in an iteration carries the name of the thought selected in
\* it, and every memory record's task field names the thought whose result it holds.
C19_TaskIsSelectedThought ==
    /\ pc \in {"execute", "persist", "create"} /\ current_thought # None =>
          task.task_name = thoughts[current_thought].task_name
    /\ \A i \in 1..Len(memory) :
          i <= Len(executed) => memory[i].task = thoughts[executed[i]].task_name


\* the ids prioritization_agent has announced to the oracle as the start number
Announced == { steps[i].id : i \in { j \in 1..Len(steps) : steps[j].step = "prioritize" } }

\* the counter values that tasks have been given as their task_id
GivenIds == { t.task_id.n : t \in { u \in held : u.task_id.ty = "int" } }

\* C20: a prioritization takes one value of the counter and makes no task with it:
\* the step raises the counter by exactly one and leaves the tasks alone, the value
\* it announces is never the task_id of a task, and so the counter is ahead of the
\* number of ids given to tasks by one per prioritization, the ids given before and
\* after a prioritization leaving out the announced one.
C20_PrioritizationSkipsAnId ==
    /\ [][pc = "prioritize" /\ pc' = "prio_call" =>
            /\ tasks_storage'.task_id_counter = tasks_storage.task_id_counter + 1
            /\ tasks_storage'.tasks = tasks_storage.tasks
            /\ held' = held
            /\ steps'[Len(steps')].id = tasks_storage'.task_id_counter]_vars
    /\ [](/\ Announced \cap GivenIds = {}
          /\ \A t \in held : \A a \in Announced : t.task_id # IntId(a)
          /\ GivenIds \cup Announced = 1..tasks_storage.task_id_counter
          /\ tasks_storage.task_id_counter = Cardinality(GivenIds) + Count("prioritize")
          /\ \A a \in Announced : \A n \in GivenIds :
                ((a - 1) \in GivenIds /\ n > a - 1) => n >= (a - 1) + 2)

\* tasks generated in two consecutive iterations, the id announced between them
\* lying between their ids and given to neither
C20_Witness ==
    \E a \in Announced : (a - 1) \in GivenIds /\ (a + 1) \in GivenIds

====
